---- MODULE Spec2Model ----
(***************************************************************************)
(* Model of src/src/scene_builder.ts: the solar-system scene's startup     *)
(* (init / fetchPlanetPositions / createSolarSystem), its frame loop       *)
(* (animate / updatePlanetPositions / updateCamera) and its UI handlers    *)
(* (speed, compression, selection, close).                                 *)
(*                                                                         *)
(* JavaScript numbers are modelled as exact rationals extended with        *)
(* +Infinity, -Infinity and NaN, with the IEEE-754 rules for the special   *)
(* values (signed zero is not distinguished).  Angles are measured in      *)
(* units of pi/2, so that 2*pi is the number 4 and cos/sin are exact at    *)
(* every multiple of a quarter turn.  Timestamps are milliseconds counted  *)
(* from an epoch shortly before the page was loaded.                       *)
(***************************************************************************)
EXTENDS Integers, Sequences, FiniteSets, TLC

(***************************************************************************)
(* Bounds of the model                                                     *)
(***************************************************************************)
\* number of planets fetched (a prefix of the source's planetNames)
NumPlanets == 1
\* frames run by the loop
MaxFrames == 2

(***************************************************************************)
(* Numbers                                                                 *)
(***************************************************************************)
Abs(i) == IF i < 0 THEN -i ELSE i

RECURSIVE GCD(_, _)
GCD(a, b) == IF b = 0 THEN a ELSE GCD(b, a % b)

\* the rational num/den in lowest terms with a positive denominator
Rat(num, den) ==
  LET g == GCD(Abs(num), Abs(den))
      s == IF den < 0 THEN -1 ELSE 1
  IN [k |-> "fin", n |-> s * (num \div g), d |-> s * (den \div g)]

Num(i) == [k |-> "fin", n |-> i, d |-> 1]
PInf == [k |-> "pinf", n |-> 0, d |-> 0]
NInf == [k |-> "ninf", n |-> 0, d |-> 0]
NaN == [k |-> "nan", n |-> 0, d |-> 0]
\* the JavaScript value undefined (a property that is absent)
Undefined == [k |-> "undef", n |-> 0, d |-> 0]
\* a JSON value that is present but is not a number (a string)
NotANumberValue == [k |-> "str", n |-> 0, d |-> 0]

\* ToNumber of a value used in arithmetic: undefined becomes NaN
ToNumber(v) == IF v.k \in {"undef", "str"} THEN NaN ELSE v

IsFinite(x) == x.k = "fin"
IsNaN(x) == x.k = "nan"
Sign(x) ==
  CASE x.k = "pinf" -> 1
    [] x.k = "ninf" -> -1
    [] x.k = "fin" -> (IF x.n > 0 THEN 1 ELSE IF x.n < 0 THEN -1 ELSE 0)
    [] OTHER -> 0
Signed(s) == IF s > 0 THEN PInf ELSE NInf

Neg(x) ==
  CASE x.k = "fin" -> [x EXCEPT !.n = -x.n]
    [] x.k = "pinf" -> NInf
    [] x.k = "ninf" -> PInf
    [] OTHER -> NaN

Add(a, b) ==
  CASE a.k = "nan" \/ b.k = "nan" -> NaN
    [] a.k = "fin" /\ b.k = "fin" -> Rat(a.n * b.d + b.n * a.d, a.d * b.d)
    [] a.k = "fin" -> b
    [] b.k = "fin" -> a
    [] a.k = b.k -> a
    [] OTHER -> NaN

Sub(a, b) == Add(a, Neg(b))

Mul(a, b) ==
  CASE a.k = "nan" \/ b.k = "nan" -> NaN
    [] a.k = "fin" /\ b.k = "fin" ->
         LET g1 == GCD(Abs(a.n), b.d)
             g2 == GCD(Abs(b.n), a.d)
         IN Rat((a.n \div g1) * (b.n \div g2), (a.d \div g2) * (b.d \div g1))
    [] Sign(a) = 0 \/ Sign(b) = 0 -> NaN
    [] OTHER -> Signed(Sign(a) * Sign(b))

Div(a, b) ==
  CASE a.k = "nan" \/ b.k = "nan" -> NaN
    [] a.k = "fin" /\ b.k = "fin" ->
         IF b.n = 0
         THEN (IF a.n = 0 THEN NaN ELSE Signed(Sign(a)))
         ELSE Mul(a, Rat(b.d, b.n))
    [] a.k = "fin" -> Num(0)
    [] b.k = "fin" -> Signed(Sign(a) * (IF Sign(b) < 0 THEN -1 ELSE 1))
    [] OTHER -> NaN

\* a < b, false when either side is NaN
Less(a, b) ==
  CASE a.k = "nan" \/ b.k = "nan" -> FALSE
    [] a.k = "fin" /\ b.k = "fin" -> a.n * b.d < b.n * a.d
    [] OTHER -> a.k # b.k /\ (a.k = "ninf" \/ b.k = "pinf")

\* 2 * Math.PI in the model's angle unit (pi/2)
TwoPi == Num(4)

\* Math.cos: exact at the multiples of a quarter turn, linear in between
Cos(x) ==
  IF x.k # "fin" THEN NaN
  ELSE LET m == x.n % (4 * x.d)
       IN IF m <= 2 * x.d THEN Rat(x.d - m, x.d) ELSE Rat(m - 3 * x.d, x.d)

\* Math.sin
Sin(x) == Cos(Sub(x, Num(1)))

RECURSIVE IPow(_, _)
IPow(b, e) == IF e = 0 THEN 1 ELSE b * IPow(b, e - 1)

RECURSIVE RootUpper(_, _, _)
RootUpper(x, q, h) == IF IPow(h, q) > x THEN h ELSE RootUpper(x, q, 2 * h)

RECURSIVE RootBisect(_, _, _, _)
RootBisect(x, q, lo, hi) ==
  IF hi - lo <= 1 THEN lo
  ELSE LET mid == (lo + hi) \div 2
       IN IF IPow(mid, q) <= x THEN RootBisect(x, q, mid, hi)
                               ELSE RootBisect(x, q, lo, mid)

\* the q-th root of the natural number x, rounded down to a whole number
IRoot(x, q) == IF q = 1 THEN x ELSE RootBisect(x, q, 0, RootUpper(x, q, 1))

\* Math.pow(base, exponent) for base >= 0; a root that is not a whole number
\* is rounded down to one
Pow(base, exponent) ==
  CASE exponent.k = "nan" -> NaN
    [] Sign(exponent) = 0 -> Num(1)
    [] base.k = "nan" -> NaN
    [] exponent.k \in {"pinf", "ninf"} ->
         LET big == Less(Num(1), base)
             up == (exponent.k = "pinf") = big
         IN IF base = Num(1) THEN NaN ELSE IF up THEN PInf ELSE Num(0)
    [] base.k = "pinf" -> IF Sign(exponent) > 0 THEN PInf ELSE Num(0)
    [] base.k = "ninf" \/ Sign(base) < 0 -> NaN
    [] OTHER ->
         LET p == Abs(exponent.n)
             q == exponent.d
             r == Rat(IPow(IRoot(base.n, q), p), IPow(IRoot(base.d, q), p))
         IN IF exponent.n > 0 THEN r ELSE Div(Num(1), r)

(***************************************************************************)
(* Constants of the program                                                *)
(***************************************************************************)
SUN_RADIUS == 696340
PLANET_SCALE == 4
DISTANCE_SCALE == 10
\* the camera's start position, CAMERA.position.set(0, 400, 1e7)
CameraStartY == 400
CameraStartZ == 10000000
\* the offsets of the follow target and the interpolation factor 0.1
FollowOffsetY == 400
FollowOffsetZ == 1500000
LerpAlpha == Rat(1, 10)
\* the rotation period of getSunData, 25.38
SunRotationPeriod == Rat(2538, 100)

Origin == <<Num(0), Num(0), Num(0)>>

AllPlanetNames ==
  <<"mercury", "venus", "earth", "mars", "jupiter", "saturn", "uranus", "neptune">>

\* the planets fetched: the first NumPlanets names of the source's list
planetNames == SubSeq(AllPlanetNames, 1, NumPlanets)

(***************************************************************************)
(* Inputs: what the remote API answers, what the clock shows, what the     *)
(* sliders send                                                            *)
(***************************************************************************)
\* the clock is read at multiples of 15 seconds
TimeStep == 15 * 1000
\* what Date.now() can return, in any order (the clock may stand still or go back)
Timestamps == {0, TimeStep, 2 * TimeStep}
\* Date.now() when the module was loaded (let lastTime = Date.now())
LoadTime == 0

PlanetIndex(planet) == CHOOSE i \in 1..Len(AllPlanetNames) : AllPlanetNames[i] = planet

\* the body the API holds for a planet: semimajorAxis and meanRadius in km,
\* sideralOrbit in days, sideralRotation in hours.  The body of the first
\* planet has no sideralRotation, that of the second has sideralRotation 0.
ApiBody(planet) ==
  LET i == PlanetIndex(planet)
  IN [semimajorAxis |-> Num((i + 6) * 100000000 - SUN_RADIUS * 1000),
      meanRadius |-> Num((i + 1) * (i + 1)),
      sideralOrbit |-> Num(i),
      sideralRotation |-> IF i = 1 THEN Undefined
                          ELSE IF i = 2 THEN Num(0) ELSE Num(24 * i)]

ResponseKinds == {"full", "malformed", "unreachable"}

\* the outcome of fetch + response.json() for one planet
Response(planet, kind) ==
  CASE kind = "full" -> [ok |-> TRUE, data |-> ApiBody(planet)]
    [] kind = "malformed" ->
         [ok |-> TRUE, data |-> [ApiBody(planet) EXCEPT !.sideralOrbit = NotANumberValue]]
    [] OTHER -> [ok |-> FALSE, data |-> ApiBody(planet)]

SpeedInputs == {"2"}
CompressionInputs == {"2", "0"}

\* ToNumber of a slider's value string
StringToNumber(s) ==
  CASE s = "0" -> Num(0)
    [] s = "1" -> Num(1)
    [] s = "2" -> Num(2)
    [] s = "" -> Num(0)
    [] s = "Infinity" -> PInf
    [] OTHER -> NaN

\* parseFloat of a slider's value string
ParseFloat(s) ==
  CASE s = "0" -> Num(0)
    [] s = "1" -> Num(1)
    [] s = "2" -> Num(2)
    [] s = "Infinity" -> PInf
    [] OTHER -> NaN

(***************************************************************************)
(* State                                                                   *)
(***************************************************************************)
VARIABLES
  phase,             \* init(): "fetching", "running" (animate was called) or "failed"
  fetchResponses,    \* what the fetches of the planets settled with, <<>> before
  planetMeshes,      \* the meshes created, in creation order
  compressionAmount,
  orbitalSpeed,      \* a number at first, the slider's string afterwards
  selectedPlanet,    \* index in planetMeshes of the selected mesh, 0 for null
  lastTime,
  cameraPosition,    \* CAMERA.position
  cameraLookAt,      \* the point the camera is oriented at
  popupDisplay,      \* style.display of the popup
  frameCount,        \* calls of animate so far
  frame,             \* what the last call of animate did and handed to the renderer
  lastSelectEvent,   \* the last onClick / close handler that ran
  followPending      \* a body was selected while none was, and no frame ran since

vars == <<phase, fetchResponses, planetMeshes, compressionAmount, orbitalSpeed, selectedPlanet,
          lastTime, cameraPosition, cameraLookAt, popupDisplay, frameCount,
          frame, lastSelectEvent, followPending>>

NoSelection == 0

(***************************************************************************)
(* Startup data                                                            *)
(***************************************************************************)
\* does formatPlanetData (through formatPlanetInfo) throw on this body?
\* x.toFixed throws unless x is a number
FormatThrows(data) ==
  \/ data.semimajorAxis.k \in {"undef", "str"}
  \/ data.meanRadius.k \in {"undef", "str"}
  \/ data.sideralOrbit.k \in {"undef", "str"}
  \/ data.sideralRotation.k = "str"

formatPlanetData(data, planet) ==
  [name |-> planet,
   distance |-> data.semimajorAxis,
   radius |-> data.meanRadius,
   orbitalPeriod |-> data.sideralOrbit,
   rotationPeriod |-> data.sideralRotation]

getSunData ==
  [name |-> "sun",
   distance |-> Num(0),
   radius |-> Num(SUN_RADIUS),
   orbitalPeriod |-> Num(0),
   rotationPeriod |-> SunRotationPeriod]

\* fetchPlanetPositions rejecting on a failed fetch only, never on the body
FetchRejects_unchecked(responses) ==
  \E i \in 1..Len(planetNames) : ~responses[i].ok

\* does the promise of fetchPlanetPositions reject?
FetchRejects(responses) ==
  \E i \in 1..Len(planetNames) :
    \/ ~responses[i].ok
    \/ FormatThrows(responses[i].data)

fetchPlanetPositions(responses) ==
  <<getSunData>> \o [i \in 1..Len(planetNames) |->
                       formatPlanetData(responses[i].data, planetNames[i])]

(***************************************************************************)
(* Scene construction                                                      *)
(***************************************************************************)
compressSize(input, amount) ==
  LET exponent == Div(Num(1), amount)
  IN Sub(Add(Pow(input, exponent), Num(SUN_RADIUS)), Pow(Num(SUN_RADIUS), exponent))

createPlanet(planet, amount) ==
  LET adjustedDistance ==
        Mul(Add(Div(planet.distance, Num(1000)), Num(SUN_RADIUS)), Num(DISTANCE_SCALE))
      planetRadius == Mul(Mul(planet.radius, Rat(1, 2)), Num(PLANET_SCALE))
  IN [geometryRadius |-> compressSize(planetRadius, amount),
      scale |-> Num(1),
      position |-> <<adjustedDistance, Num(0), Num(0)>>,
      rotationY |-> Num(0),
      hasOrbitLine |-> planet.name # "sun",
      userData |-> [name |-> planet.name,
                    distance |-> adjustedDistance,
                    radius |-> planet.radius,
                    orbitalPeriod |-> planet.orbitalPeriod,
                    rotationPeriod |-> planet.rotationPeriod,
                    orbitAngle |-> Num(0),
                    rotationAngle |-> Num(0)]]

createSolarSystem(planets, amount) ==
  [i \in 1..Len(planets) |-> createPlanet(planets[i], amount)]

(***************************************************************************)
(* The frame loop                                                          *)
(***************************************************************************)
\* updatePlanetMesh without its final position.set(0, 0, 0)
updatePlanetMesh_unpinned(mesh, timeFactor) ==
  LET orbitAngle ==
        Add(mesh.userData.orbitAngle,
            Mul(Div(TwoPi, Mul(ToNumber(mesh.userData.orbitalPeriod), Num(60))),
                timeFactor))
      rotationAngle ==
        Add(mesh.userData.rotationAngle,
            Mul(Div(TwoPi, Mul(ToNumber(mesh.userData.rotationPeriod), Num(60))),
                timeFactor))
  IN [mesh EXCEPT !.userData.orbitAngle = orbitAngle,
                  !.userData.rotationAngle = rotationAngle,
                  !.rotationY = rotationAngle,
                  !.position = <<Mul(Cos(orbitAngle), mesh.userData.distance),
                                 mesh.position[2],
                                 Mul(Sin(orbitAngle), mesh.userData.distance)>>]

\* the body of the forEach of updatePlanetPositions, for one mesh
updatePlanetMesh(mesh, timeFactor) ==
  LET orbitalPeriod == ToNumber(mesh.userData.orbitalPeriod)
      rotationPeriod == ToNumber(mesh.userData.rotationPeriod)
      distance == mesh.userData.distance
      orbitAngle ==
        Add(mesh.userData.orbitAngle,
            Mul(Div(TwoPi, Mul(orbitalPeriod, Num(60))), timeFactor))
      rotationAngle ==
        Add(mesh.userData.rotationAngle,
            Mul(Div(TwoPi, Mul(rotationPeriod, Num(60))), timeFactor))
      moved == <<Mul(Cos(orbitAngle), distance),
                 mesh.position[2],
                 Mul(Sin(orbitAngle), distance)>>
  IN [mesh EXCEPT !.userData.orbitAngle = orbitAngle,
                  !.userData.rotationAngle = rotationAngle,
                  !.rotationY = rotationAngle,
                  !.position = IF orbitalPeriod = Num(0) THEN Origin ELSE moved]

updatePlanetPositions(meshes, timeFactor) ==
  [i \in 1..Len(meshes) |-> updatePlanetMesh(meshes[i], timeFactor)]

\* Vector3.lerp with the roles of the two vectors exchanged
Lerp_swapped(from, to, alpha) ==
  [i \in 1..3 |-> Add(to[i], Mul(Sub(from[i], to[i]), alpha))]

\* Vector3.lerp: this += (v - this) * alpha, component by component
Lerp(from, to, alpha) ==
  [i \in 1..3 |-> Add(from[i], Mul(Sub(to[i], from[i]), alpha))]

\* the target the camera is moved toward when the body at `position' is followed
FollowTarget(position) ==
  <<position[1],
    Add(position[2], Num(FollowOffsetY)),
    Add(position[3], Num(FollowOffsetZ))>>

\* updateCamera without its test of selectedPlanet: with nothing selected the
\* camera is drawn toward the first mesh
updateCamera_unguarded(meshes, selected, position, lookAt) ==
  LET followed == IF selected # NoSelection THEN selected ELSE 1
  IN [position |-> Lerp(position, FollowTarget(meshes[followed].position), LerpAlpha),
      lookAt |-> meshes[followed].position,
      written |-> TRUE]

\* updateCamera: the camera's position and orientation after the call
updateCamera(meshes, selected, position, lookAt) ==
  IF selected # NoSelection
  THEN [position |-> Lerp(position, FollowTarget(meshes[selected].position), LerpAlpha),
        lookAt |-> meshes[selected].position,
        written |-> TRUE]
  ELSE [position |-> position, lookAt |-> lookAt, written |-> FALSE]

\* the record kept of a call of animate
NoFrame ==
  [timeFactor |-> Num(0), regressed |-> FALSE, selected |-> NoSelection,
   cameraBefore |-> Origin, lookBefore |-> Origin,
   cameraAfter |-> Origin, lookAfter |-> Origin, cameraWritten |-> FALSE,
   firstFollow |-> FALSE, selectedBefore |-> Origin]

SpeedToNumber(speed) ==
  IF speed.isString THEN StringToNumber(speed.string) ELSE speed.number

\* one call of animate on the meshes `meshes', the clock showing `now'
animate(meshes, now) ==
  LET deltaTime == Div(Num(now - lastTime), Num(1000))
      timeFactor == Mul(deltaTime, SpeedToNumber(orbitalSpeed))
      moved == updatePlanetPositions(meshes, timeFactor)
      camera == updateCamera(moved, selectedPlanet, cameraPosition, cameraLookAt)
  IN /\ lastTime' = now
     /\ planetMeshes' = moved
     /\ cameraPosition' = camera.position
     \* CONTROLS.update(): OrbitControls re-aims the camera at its target, the origin
     /\ cameraLookAt' = Origin
     /\ frameCount' = frameCount + 1
     /\ followPending' = FALSE
     /\ frame' = [timeFactor |-> timeFactor,
                  regressed |-> now < lastTime,
                  selected |-> selectedPlanet,
                  cameraBefore |-> cameraPosition,
                  lookBefore |-> cameraLookAt,
                  cameraAfter |-> camera.position,
                  lookAfter |-> camera.lookAt,
                  cameraWritten |-> camera.written,
                  firstFollow |-> followPending /\ selectedPlanet # NoSelection,
                  selectedBefore |-> IF selectedPlanet # NoSelection
                                     THEN meshes[selectedPlanet].position
                                     ELSE Origin]

\* a frame requested by the previous call of animate
Frame ==
  /\ phase = "running"
  /\ frameCount < MaxFrames
  /\ \E now \in Timestamps : animate(planetMeshes, now)
  /\ UNCHANGED <<phase, fetchResponses, compressionAmount, orbitalSpeed, selectedPlanet,
                 popupDisplay, lastSelectEvent>>

(***************************************************************************)
(* Startup: init() after its await                                         *)
(***************************************************************************)
\* the fetch settled with an answer for every planet: init() goes on to
\* createSolarSystem and animate
FetchResolved ==
  /\ phase = "fetching"
  /\ \E kinds \in [1..Len(planetNames) -> ResponseKinds] :
       LET responses == [i \in 1..Len(planetNames) |-> Response(planetNames[i], kinds[i])]
       IN /\ ~FetchRejects(responses)
          /\ fetchResponses' = responses
          /\ \E now \in Timestamps :
               animate(createSolarSystem(fetchPlanetPositions(responses),
                                         compressionAmount), now)
  /\ phase' = "running"
  /\ UNCHANGED <<compressionAmount, orbitalSpeed, selectedPlanet, popupDisplay,
                 lastSelectEvent>>

\* the fetch failed or formatPlanetData threw: the promise of init() rejects
FetchRejected ==
  /\ phase = "fetching"
  /\ \E kinds \in [1..Len(planetNames) -> ResponseKinds] :
       LET responses == [i \in 1..Len(planetNames) |-> Response(planetNames[i], kinds[i])]
       IN /\ FetchRejects(responses)
          /\ fetchResponses' = responses
  /\ phase' = "failed"
  /\ UNCHANGED <<planetMeshes, compressionAmount, orbitalSpeed, selectedPlanet,
                 lastTime, cameraPosition, cameraLookAt, popupDisplay, frameCount,
                 frame, lastSelectEvent, followPending>>

(***************************************************************************)
(* UI handlers                                                             *)
(***************************************************************************)
updateOrbitalSpeed ==
  /\ \E value \in SpeedInputs :
       orbitalSpeed' = [isString |-> TRUE, string |-> value, number |-> Num(0)]
  /\ UNCHANGED <<phase, fetchResponses, planetMeshes, compressionAmount, selectedPlanet, lastTime,
                 cameraPosition, cameraLookAt, popupDisplay, frameCount, frame,
                 lastSelectEvent, followPending>>

updateCompressionAmount ==
  /\ \E value \in CompressionInputs :
       LET amount == ParseFloat(value)
       IN /\ compressionAmount' = amount
          /\ planetMeshes' =
               [i \in 1..Len(planetMeshes) |->
                  [planetMeshes[i] EXCEPT !.scale =
                     Div(compressSize(planetMeshes[i].userData.radius, amount),
                         planetMeshes[i].userData.radius)]]
  /\ UNCHANGED <<phase, fetchResponses, orbitalSpeed, selectedPlanet, lastTime, cameraPosition,
                 cameraLookAt, popupDisplay, frameCount, frame, lastSelectEvent,
                 followPending>>

\* the onClick of a planet mesh, of its orbit line and of its list item all
\* do the same: selectedPlanet = planetMesh; showPlanetInfo(planetMesh)
\* an onClick that selects only when nothing is selected yet
onClick_keepsFirst(state, mesh) ==
  [selectedPlanet |-> IF state.selectedPlanet = NoSelection THEN mesh
                      ELSE state.selectedPlanet,
   popupDisplay |-> "block",
   lastSelectEvent |-> [kind |-> "select", mesh |-> mesh],
   followPending |-> state.selectedPlanet = NoSelection
                     \/ (state.followPending /\ state.selectedPlanet = mesh)]

onClick(state, mesh) ==
  [selectedPlanet |-> mesh,
   popupDisplay |-> "block",
   lastSelectEvent |-> [kind |-> "select", mesh |-> mesh],
   followPending |-> state.selectedPlanet = NoSelection
                     \/ (state.followPending /\ state.selectedPlanet = mesh)]

CurrentSelection ==
  [selectedPlanet |-> selectedPlanet, popupDisplay |-> popupDisplay,
   lastSelectEvent |-> lastSelectEvent, followPending |-> followPending]

ApplySelection(state) ==
  /\ selectedPlanet' = state.selectedPlanet
  /\ popupDisplay' = state.popupDisplay
  /\ lastSelectEvent' = state.lastSelectEvent
  /\ followPending' = state.followPending

\* click on an item of the planet list
onListItemClick ==
  /\ \E mesh \in 1..Len(planetMeshes) : ApplySelection(onClick(CurrentSelection, mesh))
  /\ UNCHANGED <<phase, fetchResponses, planetMeshes, compressionAmount, orbitalSpeed, lastTime,
                 cameraPosition, cameraLookAt, frameCount, frame>>

\* onCanvasClick: the first mesh the ray meets, if any, is clicked, then the
\* first orbit line it meets, if any.  Before the scene is built
\* SCENE.children[0] is undefined and the handler throws after having met no mesh.
onCanvasClick ==
  /\ phase = "running"
  /\ \E meshHit \in 0..Len(planetMeshes) :
     \E orbitHit \in {0} \cup {i \in 1..Len(planetMeshes) : planetMeshes[i].hasOrbitLine} :
       LET afterMesh == IF meshHit # 0 THEN onClick(CurrentSelection, meshHit)
                        ELSE CurrentSelection
           afterOrbit == IF orbitHit # 0 THEN onClick(afterMesh, orbitHit)
                         ELSE afterMesh
       IN ApplySelection(afterOrbit)
  /\ UNCHANGED <<phase, fetchResponses, planetMeshes, compressionAmount, orbitalSpeed, lastTime,
                 cameraPosition, cameraLookAt, frameCount, frame>>

closePopup ==
  /\ selectedPlanet' = NoSelection
  /\ popupDisplay' = "none"
  /\ lastSelectEvent' = [kind |-> "close", mesh |-> NoSelection]
  /\ followPending' = FALSE
  /\ UNCHANGED <<phase, fetchResponses, planetMeshes, compressionAmount, orbitalSpeed, lastTime,
                 cameraPosition, cameraLookAt, frameCount, frame>>

(***************************************************************************)
(* Specification                                                           *)
(***************************************************************************)
Init ==
  /\ phase = "fetching"
  /\ fetchResponses = <<>>
  /\ planetMeshes = <<>>
  /\ compressionAmount = Num(1)
  /\ orbitalSpeed = [isString |-> FALSE, string |-> "", number |-> Num(1)]
  /\ selectedPlanet = NoSelection
  /\ lastTime = LoadTime
  /\ cameraPosition = <<Num(0), Num(CameraStartY), Num(CameraStartZ)>>
  /\ cameraLookAt = Origin
  /\ popupDisplay = "initial"
  /\ frameCount = 0
  /\ frame = NoFrame
  /\ lastSelectEvent = [kind |-> "none", mesh |-> NoSelection]
  /\ followPending = FALSE

Next ==
  \/ FetchResolved
  \/ FetchRejected
  \/ Frame
  \/ updateOrbitalSpeed
  \/ updateCompressionAmount
  \/ onListItemClick
  \/ onCanvasClick
  \/ closePopup

Spec == Init /\ [][Next]_vars

(***************************************************************************)
(* Notions the properties use                                              *)
(***************************************************************************)
\* the central body: the one that does not orbit
IsCentral(mesh) == mesh.userData.orbitalPeriod = Num(0)

\* the radius createPlanet passes to compressSize
UncompressedRadius(mesh) == Mul(Mul(mesh.userData.radius, Rat(1, 2)), Num(PLANET_SCALE))

\* the radius a mesh is drawn with is geometryRadius * scale; it equals
\* `expected' when expected / scale is the geometry's radius
DisplayRadiusIs(mesh, expected) ==
  /\ IsFinite(mesh.scale)
  /\ Sign(mesh.scale) # 0
  /\ Div(expected, mesh.scale) = mesh.geometryRadius

ValidCompression(amount) == IsFinite(amount) /\ ~Less(amount, Num(1))

\* natural numbers beyond 2^31, as <<high, low>> = high * 10^8 + low
BigHalf == 10^4
BigBase == BigHalf * BigHalf

BigSquare(a) ==
  LET h == Abs(a) \div BigHalf
      l == Abs(a) % BigHalf
      m == 2 * h * l
      low == l * l + (m % BigHalf) * BigHalf
  IN <<h * h + (m \div BigHalf) + (low \div BigBase), low % BigBase>>

BigAdd(x, y) == <<x[1] + y[1] + ((x[2] + y[2]) \div BigBase), (x[2] + y[2]) % BigBase>>

BigLess(x, y) == x[1] < y[1] \/ (x[1] = y[1] /\ x[2] < y[2])

\* the square of the distance between two points with whole coordinates
Distance2(u, v) ==
  BigAdd(BigSquare(Sub(u[1], v[1]).n),
         BigAdd(BigSquare(Sub(u[2], v[2]).n), BigSquare(Sub(u[3], v[3]).n)))

\* every coordinate the distances are taken of is a whole number
WholeCoordinates ==
  /\ \A i \in 1..3 : cameraPosition[i].d = 1 /\ frame.cameraBefore[i].d = 1
  /\ \A m \in 1..Len(planetMeshes) :
       \A i \in 1..3 : IsFinite(planetMeshes[m].position[i])
                         => planetMeshes[m].position[i].d = 1

(***************************************************************************)
(* Properties                                                              *)
(***************************************************************************)
\* C1: once a frame has run, the central body (orbitalPeriod = 0) is at the
\* origin (0, 0, 0) in what the frame handed to the renderer, whatever the
\* time factors of the frames and whatever events came in between.
CentralBodyAtOrigin ==
  frameCount >= 1 =>
    \A m \in 1..Len(planetMeshes) :
      IsCentral(planetMeshes[m]) => planetMeshes[m].position = Origin

\* C1 witness: two frames ran, the central body's orbit angle is no longer a
\* number, the speed and the compression were changed, and it is at the origin
CentralBodyAtOriginWitness ==
  /\ frameCount >= 2
  /\ orbitalSpeed.isString
  /\ compressionAmount # Num(1)
  /\ \E m \in 1..Len(planetMeshes) :
       /\ IsCentral(planetMeshes[m])
       /\ IsNaN(planetMeshes[m].userData.orbitAngle)
       /\ planetMeshes[m].position = Origin

\* C2: a frame whose timestamp is earlier than the previous frame's has the
\* time factor 0 (never a negative one).
RegressedFrameTimeFactorZero ==
  frame.regressed => frame.timeFactor = Num(0)

\* C3: the selection is none or one body: the body of the last select event
\* when no close came after it, none otherwise; and a frame follows with the
\* camera exactly when a body is selected.
SelectionIsLastSelected ==
  /\ selectedPlanet \in 0..Len(planetMeshes)
  /\ selectedPlanet = (IF lastSelectEvent.kind = "select" THEN lastSelectEvent.mesh
                       ELSE NoSelection)
  /\ frameCount >= 1 => (frame.cameraWritten <=> frame.selected # NoSelection)

\* C3 witness: the last frame followed the first body, and a later select
\* event replaced it by the second
SelectionIsLastSelectedWitness ==
  /\ frame.cameraWritten
  /\ frame.selected = 1
  /\ lastSelectEvent = [kind |-> "select", mesh |-> 2]
  /\ selectedPlanet = 2

\* C4: with a valid compression parameter in force, every body is drawn with
\* the radius the compression function gives for its uncompressed radius
\* under that parameter, nothing of an earlier parameter remaining.
DisplayRadiusFollowsCompression ==
  ValidCompression(compressionAmount) =>
    \A m \in 1..Len(planetMeshes) :
      DisplayRadiusIs(planetMeshes[m],
                      compressSize(UncompressedRadius(planetMeshes[m]), compressionAmount))

\* C5: the compression parameter is always a finite number that is at least 1.
CompressionAmountValid == ValidCompression(compressionAmount)

\* C6: the orbit angle of the central body keeps its initial value 0: the
\* update does not accumulate 2*pi / (0 * 60) * timeFactor into it.
CentralOrbitAngleKept ==
  \A m \in 1..Len(planetMeshes) :
    IsCentral(planetMeshes[m]) => planetMeshes[m].userData.orbitAngle = Num(0)

\* C7: a body whose rotation period is unknown or zero keeps its rotation
\* angle (0 from its creation on) in every frame.
UnknownRotationKept ==
  \A m \in 1..Len(planetMeshes) :
    planetMeshes[m].userData.rotationPeriod \in {Undefined, Num(0)} =>
      /\ planetMeshes[m].userData.rotationAngle = Num(0)
      /\ planetMeshes[m].rotationY = Num(0)

\* C8 as stated: in the first frame after a body was selected with none
\* selected before, the camera is strictly nearer to the body's offset target
\* than it was to the body's offset target in the frame before.  (Stated for
\* the frames whose clock did not go backward.)
FirstFollowFrameNearer ==
  (frame.firstFollow /\ ~frame.regressed) =>
    BigLess(Distance2(frame.cameraAfter,
                      FollowTarget(planetMeshes[frame.selected].position)),
            Distance2(frame.cameraBefore, FollowTarget(frame.selectedBefore)))

\* C8 amended: in the first frame after a body was selected with none
\* selected before, the camera follows: it moves a tenth of the way to the
\* offset target of the body's position in that frame, so each coordinate's
\* offset from that target is nine tenths of what it was before the frame, and
\* the camera is strictly nearer to that target unless it already was there.
FirstFollowFrameLerps ==
  frame.firstFollow =>
    LET target == FollowTarget(planetMeshes[frame.selected].position)
    IN /\ frame.cameraWritten
       /\ \A i \in 1..3 :
            Sub(frame.cameraAfter[i], target[i])
              = Mul(Rat(9, 10), Sub(frame.cameraBefore[i], target[i]))
       /\ \/ frame.cameraBefore = target
          \/ BigLess(Distance2(frame.cameraAfter, target),
                     Distance2(frame.cameraBefore, target))

\* C8 witness: a first frame of following in which the followed body moved
\* and the camera moved
FirstFollowFrameLerpsWitness ==
  /\ frame.firstFollow
  /\ planetMeshes[frame.selected].position # frame.selectedBefore
  /\ frame.cameraAfter # frame.cameraBefore

\* C9: a frame that runs with no body selected leaves the camera's position
\* and orientation as they were; updateCamera writes them only in a frame
\* that runs with a body selected.
FreeFrameLeavesCamera ==
  frameCount >= 1 =>
    /\ frame.selected = NoSelection =>
         /\ frame.cameraAfter = frame.cameraBefore
         /\ frame.lookAfter = frame.lookBefore
    /\ frame.cameraAfter # frame.cameraBefore => frame.selected # NoSelection
    /\ frame.lookAfter # frame.lookBefore => frame.selected # NoSelection

\* C9 witness: the popup was closed, and the second frame then ran with no
\* body selected
FreeFrameLeavesCameraWitness ==
  /\ frameCount >= 2
  /\ frame.selected = NoSelection
  /\ lastSelectEvent.kind = "close"
  /\ popupDisplay = "none"

\* C10: frames run, and meshes exist, only after the fetch of every planet
\* succeeded with a well-formed body; after a failed fetch or a malformed
\* body no frame ever runs.
WellFormed(response) ==
  /\ response.ok
  /\ IsFinite(response.data.semimajorAxis)
  /\ IsFinite(response.data.meanRadius)
  /\ IsFinite(response.data.sideralOrbit)

NoFrameWithoutData ==
  /\ (frameCount >= 1 \/ planetMeshes # <<>>) =>
       /\ phase = "running"
       /\ Len(fetchResponses) = Len(planetNames)
       /\ \A i \in 1..Len(fetchResponses) : WellFormed(fetchResponses[i])
  /\ phase = "failed" => frameCount = 0 /\ frame = NoFrame

\* C10 witness: the fetch settled with a malformed body and the start failed
NoFrameWithoutDataWitness ==
  /\ phase = "failed"
  /\ \E i \in 1..Len(fetchResponses) :
       fetchResponses[i].ok /\ ~WellFormed(fetchResponses[i])
  /\ frameCount = 0

====
